---- MODULE Spec2Model ----
(***************************************************************************)
(* The HumioAlert reconciliation loop of the humio-operator.               *)
(*                                                                         *)
(* One HumioAlert object (the DesiredResource) lives in the Kubernetes     *)
(* store, one alert (the RemoteResource) lives in Humio.  A pass of        *)
(* Reconcile is a sequence of steps, one per blocking call; the owner of   *)
(* the object and the Humio server act between the steps.                  *)
(*                                                                         *)
(* Spec          the passes of one object with the owner and the server    *)
(* SpecConverge  the passes of one object with nothing going wrong         *)
(* SpecLife      the lifetime of one object with crashes, under fairness   *)
(* SpecLog       two passes at once and the logger field they share        *)
(* SpecSecrets   the secret helpers of the HumioAction type                *)
(***************************************************************************)
EXTENDS Integers, Sequences, FiniteSets, TLC

VARIABLES
    Namespace,    \* r.Namespace: the namespace the controller is scoped to, "" for all
    stored,       \* the HumioAlert object as the Kubernetes store holds it
    alert,        \* the alert in Humio: {} when absent, {a} when present
    actions,      \* the names of the actions that exist in Humio
    pc,           \* where the pass in flight stands
    ha,           \* the pass's in-memory copy of the object
    ha0,          \* the object as the pass loaded it (history)
    fresh,        \* ha still carries the store's resourceVersion
    cluster,      \* what helpers.NewCluster gave the pass: "", "ok" or "error" (history)
    curAlert,     \* the alert the pass fetched: {} or {a}
    expectedAlert,\* the AlertTransform result of the pass: {} or {a}
    result,       \* what reconcileHumioAlert (or Reconcile itself) returns
    trace,        \* the remote calls and store writes of the pass, in order (history)
    env,          \* the number of owner and server steps taken so far
    passes,       \* the passes started so far (history)
    deletes,      \* the DeleteAlert calls that have succeeded so far (history)
    faults,       \* the calls made to fail and the crashes so far (history)
    Log,          \* r.Log: the logger field of the reconciler
    at,           \* per request: where its pass stands when passes run concurrently
    held,         \* per request: the logger its pass read at line 76
    logged,       \* per request: the log lines its pass has written (history)
    HaSecrets,    \* the package variable HaSecrets: key -> secret
    ApiToken,     \* per HumioAction: its Spec.SlackPostMessageProperties.ApiToken
    before,       \* per HumioAction: the token it carried before any call (history)
    called,       \* per HumioAction: the SecretFromHa calls made on it (history)
    looked        \* what the last HaHasSecret call was made on and returned (history)

\* The logger of the reconciler and the concurrent passes that use it.
logging == <<Log, at, held, logged>>

\* The secrets of the HumioActions.
secrets == <<HaSecrets, ApiToken, before, called, looked>>

\* What no step of a pass and no step of the environment changes.
fixed == <<Namespace, logging, secrets>>

\* What is kept about the passes of one object's lifetime.  No step mentions
\* it; a specification says per step what becomes of it.
hist == <<passes, deletes, faults>>

vars == <<fixed, stored, alert, actions, pc, ha, ha0, fresh, cluster, curAlert,
          expectedAlert, result, trace, env, hist>>

\* The steps the owner and the Humio server take in one run.
MaxEnv == 3

----------------------------------------------------------------------------
\* Data

humioFinalizer == "core.humio.com/finalizer"
otherFinalizer == "foregroundDeletion"

HumioAlertStateExists == "Exists"
HumioAlertStateNotFound == "NotFound"
HumioAlertStateConfigError == "ConfigError"

\* Two requests for different objects, and the UID of each object.
Requests == {"alert-a", "alert-b"}
UID(q) == IF q = "alert-a" THEN "uid-a" ELSE "uid-b"

\* r.BaseLogger, and BaseLogger.WithValues("Request.Name", q, ...).
BaseLogger == [name |-> "", uid |-> ""]
WithRequest(q) == [name |-> q, uid |-> ""]

\* l.WithValues("Request.UID", uid)
WithUID(l, uid) == [l EXCEPT !.uid = uid]

\* Three HumioActions by namespace and name, and the tokens they may carry.
HumioActions ==
    {[Namespace |-> "a-b", Name |-> "c"],
     [Namespace |-> "a", Name |-> "b-c"],
     [Namespace |-> "a", Name |-> "c"]}
Tokens == {"xoxb-1", "xoxb-2"}

\* make(map[string]string)
NoSecrets == [k \in {} |-> ""]

\* The namespace of the request, and the values r.Namespace takes.
ReqNamespace == "ns1"
Namespaces == {"", "ns1", "ns2"}

ActionNames == {"a1", "a2"}
\* The identifier Humio gave each action.
ActionID(name) == IF name = "a1" THEN "id1" ELSE "id2"

Queries == {"q1", "q2"}
\* ha.Spec: the fields of the desired state the loop inspects.
Specs == {[query |-> "q1", actions |-> <<"a1">>],
          [query |-> "q2", actions |-> <<"a1">>],
          [query |-> "q1", actions |-> <<"a1", "a2">>]}
NoSpec == [query |-> "", actions |-> <<>>]

\* The object once it has left the store.
Gone == [exists |-> FALSE, deletion |-> FALSE, finalizers |-> <<>>,
         state |-> "", spec |-> NoSpec]

\* No error, and a reconcile.Result.
nil == "nil"
Result(requeue, err) == [requeue |-> requeue, err |-> err]

The(S) == CHOOSE x \in S : TRUE
Range(s) == {s[i] : i \in 1..Len(s)}

\* helpers.ContainsElement and helpers.RemoveElement.
ContainsElement(list, s) == \E i \in 1..Len(list) : list[i] = s
RemoveElement(list, s) == SelectSeq(list, LAMBDA x : x # s)
Count(list, s) == Cardinality({i \in 1..Len(list) : list[i] = s})

\* One entry of the pass's trace.
Call(op, out) == [op |-> op, out |-> out]
Calls(op) == {i \in 1..Len(trace) : trace[i].op = op}
CallsOk(op) == {i \in 1..Len(trace) : trace[i].op = op /\ trace[i].out = "ok"}
Mutating == {"AddAlert", "UpdateAlert", "DeleteAlert"}
Remote == Mutating \cup {"GetAlert", "GetActionIDs"}
Mutations == {i \in 1..Len(trace) : trace[i].op \in Mutating}
RemoteCalls == {i \in 1..Len(trace) : trace[i].op \in Remote}

----------------------------------------------------------------------------
\* The pure parts

\* The identifiers of the action names of spec that exist in Humio.
ActionIdMap(spec, existing) ==
    [n \in Range(spec.actions) \cap existing |-> ActionID(n)]

\* humio.AlertTransform fails on an action name the map does not hold.
CanTransform(spec, idMap) ==
    \A i \in 1..Len(spec.actions) : spec.actions[i] \in DOMAIN idMap

\* humio.AlertTransform: the alert the spec asks for, no server-managed field set.
AlertTransform(spec, idMap) ==
    [query |-> spec.query,
     actions |-> [i \in 1..Len(spec.actions) |-> idMap[spec.actions[i]]],
     id |-> "", time |-> 0, lastError |-> ""]

\* sanitizeAlert without the line that clears LastError.
sanitizeAlertKeepingError(a) == [a EXCEPT !.time = 0, !.id = ""]

sanitizeAlert(a) == [a EXCEPT !.time = 0, !.id = "", !.lastError = ""]

\* The comparison without sanitizeAlert before it.
AlertDiffersUnsanitized(cur, expected) == cur # expected

\* sanitizeAlert(curAlert); !reflect.DeepEqual(*curAlert, *expectedAlert)
AlertDiffers(cur, expected) == sanitizeAlert(cur) # expected

IsMarkedForDeletion(h) == h.deletion

\* A check of the finalizer list that always finds the token.
HasFinalizerUnchecked(h) == TRUE

HasFinalizer(h) == ContainsElement(h.finalizers, humioFinalizer)

----------------------------------------------------------------------------
\* The Humio client: what each call may return, and what it does to Humio.

\* GetAlert: the alert, EntityNotFound when there is none, or another error.
ClientGetAlert == {"err"} \cup (IF alert = {} THEN {"notfound"} ELSE {"ok"})

\* GetActionIDsMapForAlerts: an error, or the map of the names that exist;
\* "partial" is a map that lacks a name of the spec.
ClientGetActionIDs(spec) ==
    {"err"} \cup (IF CanTransform(spec, ActionIdMap(spec, actions))
                  THEN {"ok"} ELSE {"partial"})

\* AddAlert: the client resolves the action names and transforms the spec
\* before it asks Humio to create the alert.
ClientAddAlert(spec) ==
    LET idMap == ActionIdMap(spec, actions)
        failed(calls) == [ok |-> FALSE, calls |-> calls, alert |-> alert]
    IN  {failed(<<Call("GetActionIDs", "err")>>)}
        \cup (IF ~CanTransform(spec, idMap)
              THEN {failed(<<Call("GetActionIDs", "partial")>>)}
              ELSE {failed(<<Call("GetActionIDs", "ok"), Call("AddAlert", "err")>>)}
                   \cup (IF alert # {} THEN {}
                         ELSE {[ok |-> TRUE,
                                calls |-> <<Call("GetActionIDs", "ok"),
                                            Call("AddAlert", "ok")>>,
                                alert |-> {[AlertTransform(spec, idMap)
                                              EXCEPT !.id = "alert1"]}]}))

\* UpdateAlert: the whole desired alert replaces the declared fields of the
\* remote one.
ClientUpdateAlert(expected) ==
    {[ok |-> FALSE, alert |-> alert]}
    \cup (IF alert = {} THEN {}
          ELSE {[ok |-> TRUE,
                 alert |-> {[expected EXCEPT !.id = The(alert).id,
                                             !.time = The(alert).time,
                                             !.lastError = The(alert).lastError]}]})

\* DeleteAlert: the alert is gone when the call succeeds.
ClientDeleteAlert == {[ok |-> FALSE, alert |-> alert], [ok |-> TRUE, alert |-> {}]}

----------------------------------------------------------------------------
\* The reconciler as constructed, one object in the store, nothing in Humio.
InitAlert ==
    /\ Namespace \in Namespaces
    /\ \E s \in Specs, f \in {<<>>, <<otherFinalizer>>} :
          stored = [exists |-> TRUE, deletion |-> FALSE, finalizers |-> f,
                    state |-> "", spec |-> s]
    /\ alert = {}
    /\ actions \in SUBSET ActionNames
    /\ pc = "idle"
    /\ ha = Gone
    /\ ha0 = Gone
    /\ fresh = FALSE
    /\ cluster = ""
    /\ curAlert = {}
    /\ expectedAlert = {}
    /\ result = Result(FALSE, nil)
    /\ trace = <<>>
    /\ env = 0
    /\ passes = 0
    /\ deletes = 0
    /\ faults = 0
    /\ Log = BaseLogger
    /\ at = [q \in Requests |-> "l54"]
    /\ held = [q \in Requests |-> BaseLogger]
    /\ logged = [q \in Requests |-> <<>>]

\* HumioActions with the tokens in toks, and no call made yet.
InitActions(toks) ==
    /\ HaSecrets = NoSecrets
    /\ ApiToken \in [HumioActions -> toks]
    /\ before = ApiToken
    /\ called = [hn \in HumioActions |-> 0]
    /\ looked = <<>>

Init == InitAlert /\ InitActions({""})

----------------------------------------------------------------------------
\* The Kubernetes store

\* A write of ha is accepted when the object is there and ha is not stale.
CanWrite == stored.exists /\ fresh

\* The store drops an object marked for deletion once no finalizer is left.
Collect(obj) == IF obj.deletion /\ obj.finalizers = <<>> THEN Gone ELSE obj

\* r.Update(ctx, h): the object's metadata and spec, not its status.
Updated(h) == Collect([stored EXCEPT !.finalizers = h.finalizers, !.spec = h.spec])

\* setState without the comparison: the status is written every time.
setStateAlways(state, out, tr) ==
    \/ /\ out = "ok"
       /\ CanWrite
       /\ stored' = [stored EXCEPT !.state = state]
       /\ ha' = stored'
       /\ trace' = Append(tr, Call("StatusUpdate", "ok"))
    \/ /\ out = "err"
       /\ ha' = [ha EXCEPT !.state = state]
       /\ trace' = Append(tr, Call("StatusUpdate", "err"))
       /\ UNCHANGED stored

\* setState: no write when the state is the one ha holds; out is the outcome
\* of the write, tr the pass's trace before the call.
setState(state, out, tr) ==
    \/ /\ ha.state = state
       /\ out = "skip"
       /\ trace' = tr
       /\ UNCHANGED <<ha, stored>>
    \/ /\ ha.state # state
       /\ out = "ok"
       /\ CanWrite
       /\ stored' = [stored EXCEPT !.state = state]
       /\ ha' = stored'
       /\ trace' = Append(tr, Call("StatusUpdate", "ok"))
    \/ /\ ha.state # state
       /\ out = "err"
       /\ ha' = [ha EXCEPT !.state = state]
       /\ trace' = Append(tr, Call("StatusUpdate", "err"))
       /\ UNCHANGED stored

----------------------------------------------------------------------------
\* Reconcile

OutOfScope == Namespace # "" /\ Namespace # ReqNamespace

\* A pass that ends before it has an object: no object, no client configuration.
ReturnEarly(err) ==
    /\ ha' = Gone
    /\ ha0' = Gone
    /\ fresh' = FALSE
    /\ cluster' = ""
    /\ result' = Result(FALSE, err)
    /\ pc' = "done"

\* The start of a pass: the namespace check, r.Get and helpers.NewCluster.
Reconcile ==
    /\ pc \in {"idle", "done"}
    /\ trace' = <<>>
    /\ curAlert' = {}
    /\ expectedAlert' = {}
    /\ UNCHANGED <<fixed, stored, alert, actions, env>>
    /\ \/ /\ OutOfScope
          /\ ReturnEarly(nil)
       \/ /\ ~OutOfScope
          /\ ~stored.exists
          /\ ReturnEarly(nil)
       \/ /\ ~OutOfScope
          /\ ReturnEarly("could not get object")
       \/ /\ ~OutOfScope
          /\ stored.exists
          /\ ha' = stored
          /\ ha0' = stored
          /\ fresh' = TRUE
          /\ result' = Result(FALSE, nil)
          /\ cluster' \in {"ok", "error"}
          /\ pc' = IF cluster' = "ok" THEN "reconcile" ELSE "cfgerr"

\* What Reconcile returns after setState(ConfigError): err is by then the
\* error of setState.
ConfigErrorResult(out) ==
    IF out = "err" THEN Result(FALSE, "unable to set alert state")
    ELSE Result(FALSE, nil)

\* No usable client configuration.
ConfigError ==
    /\ pc = "cfgerr"
    /\ \E out \in {"skip", "ok", "err"} :
          /\ setState(HumioAlertStateConfigError, out, trace)
          /\ result' = ConfigErrorResult(out)
    /\ pc' = "done"
    /\ UNCHANGED <<fixed, alert, actions, ha0, fresh, cluster, curAlert,
                   expectedAlert, env>>

\* The refresh without the check for EntityNotFound: every failed fetch is a
\* configuration error.
RefreshStateNoNotFound(got) ==
    IF got = "ok" THEN HumioAlertStateExists ELSE HumioAlertStateConfigError

\* The state the deferred refresh asks for, by what its GetAlert returned.
RefreshState(got) ==
    IF got = "notfound" THEN HumioAlertStateNotFound
    ELSE IF got = "err" THEN HumioAlertStateConfigError
    ELSE HumioAlertStateExists

\* A refresh that returns the error of its own fetch.
RefreshOverriding ==
    /\ pc = "refresh"
    /\ \E got \in ClientGetAlert, out \in {"skip", "ok", "err"} :
          /\ setState(RefreshState(got), out, Append(trace, Call("GetAlert", got)))
          /\ result' = IF got = "err" THEN Result(FALSE, "could not get alert")
                       ELSE result
    /\ pc' = "done"
    /\ UNCHANGED <<fixed, alert, actions, ha0, fresh, cluster, curAlert,
                   expectedAlert, env>>

\* The deferred function: GetAlert, then setState; the result stays.
Refresh ==
    /\ pc = "refresh"
    /\ \E got \in ClientGetAlert, out \in {"skip", "ok", "err"} :
          setState(RefreshState(got), out, Append(trace, Call("GetAlert", got)))
    /\ pc' = "done"
    /\ UNCHANGED <<fixed, alert, actions, ha0, fresh, cluster, curAlert,
                   expectedAlert, result, env>>

----------------------------------------------------------------------------
\* reconcileHumioAlert

\* Marked for deletion, and the finalizer is not there: nothing to clean up.
DeletionNoFinalizer ==
    /\ pc = "reconcile"
    /\ IsMarkedForDeletion(ha)
    /\ ~HasFinalizer(ha)
    /\ result' = Result(FALSE, nil)
    /\ pc' = "refresh"
    /\ UNCHANGED <<fixed, stored, alert, actions, ha, ha0, fresh, cluster, curAlert,
                   expectedAlert, trace, env>>

\* The deletion branch going on to the finalizer whatever DeleteAlert returned,
\* and the deletion branch returning no error when DeleteAlert failed.
AfterDeleteUnchecked(ok) == "unfinalize"
DeleteResultSwallowed(ok) == Result(FALSE, nil)

\* Where the deletion branch goes after DeleteAlert, and what it returns.
AfterDelete(ok) == IF ok THEN "unfinalize" ELSE "refresh"
DeleteResult(ok) == Result(FALSE, IF ok THEN nil ELSE "Delete alert returned error")

\* The deletion branch entered on the finalizer alone, marker or not.
DeleteAlertUnmarked ==
    /\ pc = "reconcile"
    /\ HasFinalizer(ha)
    /\ \E o \in ClientDeleteAlert :
          /\ alert' = o.alert
          /\ trace' = Append(trace, Call("DeleteAlert", IF o.ok THEN "ok" ELSE "err"))
          /\ result' = DeleteResult(o.ok)
          /\ pc' = AfterDelete(o.ok)
    /\ UNCHANGED <<fixed, stored, actions, ha, ha0, fresh, cluster, curAlert,
                   expectedAlert, env>>

\* Marked for deletion with the finalizer: r.HumioClient.DeleteAlert.
DeleteAlert ==
    /\ pc = "reconcile"
    /\ IsMarkedForDeletion(ha)
    /\ HasFinalizer(ha)
    /\ \E o \in ClientDeleteAlert :
          /\ alert' = o.alert
          /\ trace' = Append(trace, Call("DeleteAlert", IF o.ok THEN "ok" ELSE "err"))
          /\ result' = DeleteResult(o.ok)
          /\ pc' = AfterDelete(o.ok)
    /\ UNCHANGED <<fixed, stored, actions, ha, ha0, fresh, cluster, curAlert,
                   expectedAlert, env>>

\* r.Update(ctx, ha) with h for ha; requeue is what the caller asks on success.
UpdateObject(h, requeue) ==
    /\ ha' = h
    /\ \/ /\ CanWrite
          /\ stored' = Updated(h)
          /\ trace' = Append(trace, Call("Update", "ok"))
          /\ result' = Result(requeue, nil)
       \/ /\ trace' = Append(trace, Call("Update", "err"))
          /\ result' = Result(FALSE, "could not update object")
          /\ UNCHANGED stored
    /\ pc' = "refresh"

\* The write after the delete, with the finalizer list as it was loaded.
RemoveFinalizerKeepingToken ==
    /\ pc = "unfinalize"
    /\ UpdateObject(ha, FALSE)
    /\ UNCHANGED <<fixed, alert, actions, ha0, fresh, cluster, curAlert,
                   expectedAlert, env>>

\* The alert is deleted: the finalizer leaves the list, and the list is written.
RemoveFinalizer ==
    /\ pc = "unfinalize"
    /\ UpdateObject([ha EXCEPT !.finalizers = RemoveElement(@, humioFinalizer)], FALSE)
    /\ UNCHANGED <<fixed, alert, actions, ha0, fresh, cluster, curAlert,
                   expectedAlert, env>>

\* The finalizer attached with the error of the write not looked at: when the
\* write fails the pass goes on with the token in memory only.
AddFinalizerUnchecked ==
    /\ pc = "reconcile"
    /\ ~IsMarkedForDeletion(ha)
    /\ ~ContainsElement(ha.finalizers, humioFinalizer)
    /\ ha' = [ha EXCEPT !.finalizers = Append(@, humioFinalizer)]
    /\ \/ /\ CanWrite
          /\ stored' = Updated(ha')
          /\ trace' = Append(trace, Call("Update", "ok"))
          /\ result' = Result(TRUE, nil)
          /\ pc' = "refresh"
       \/ /\ trace' = Append(trace, Call("Update", "err"))
          /\ UNCHANGED <<stored, result, pc>>
    /\ UNCHANGED <<fixed, alert, actions, ha0, fresh, cluster, curAlert,
                   expectedAlert, env>>

\* Not marked for deletion and no finalizer yet: attach it, write, requeue.
AddFinalizer ==
    /\ pc = "reconcile"
    /\ ~IsMarkedForDeletion(ha)
    /\ ~HasFinalizer(ha)
    /\ UpdateObject([ha EXCEPT !.finalizers = Append(@, humioFinalizer)], TRUE)
    /\ UNCHANGED <<fixed, alert, actions, ha0, fresh, cluster, curAlert,
                   expectedAlert, env>>

\* The existence check with every alert taken to be missing.
GetAlertAssumedMissing ==
    /\ pc = "reconcile"
    /\ ~IsMarkedForDeletion(ha)
    /\ HasFinalizer(ha)
    /\ \E got \in ClientGetAlert :
          /\ trace' = Append(trace, Call("GetAlert", got))
          /\ curAlert' = IF got = "ok" THEN alert ELSE {}
          /\ result' = IF got = "err"
                       THEN Result(FALSE, "could not check if alert exists")
                       ELSE result
          /\ pc' = IF got = "err" THEN "refresh" ELSE "add"
    /\ UNCHANGED <<fixed, stored, alert, actions, ha, ha0, fresh, cluster,
                   expectedAlert, env>>

\* The existence check: r.HumioClient.GetAlert.
GetAlert ==
    /\ pc = "reconcile"
    /\ ~IsMarkedForDeletion(ha)
    /\ HasFinalizer(ha)
    /\ \E got \in ClientGetAlert :
          /\ trace' = Append(trace, Call("GetAlert", got))
          /\ curAlert' = IF got = "ok" THEN alert ELSE {}
          /\ result' = IF got = "err"
                       THEN Result(FALSE, "could not check if alert exists")
                       ELSE result
          /\ pc' = IF got = "notfound" THEN "add"
                   ELSE IF got = "err" THEN "refresh"
                   ELSE "actionids"
    /\ UNCHANGED <<fixed, stored, alert, actions, ha, ha0, fresh, cluster,
                   expectedAlert, env>>

\* No alert yet: r.HumioClient.AddAlert.
AddAlert ==
    /\ pc = "add"
    /\ \E o \in ClientAddAlert(ha.spec) :
          /\ alert' = o.alert
          /\ trace' = trace \o o.calls
          /\ result' = IF o.ok THEN result ELSE Result(FALSE, "could not create alert")
          /\ pc' = IF o.ok THEN "annotations" ELSE "refresh"
    /\ UNCHANGED <<fixed, stored, actions, ha, ha0, fresh, cluster, curAlert,
                   expectedAlert, env>>

\* reconcileHumioAlertAnnotations, then the requeue: the helper writes the
\* object from a copy of its own, after which ha may be stale.
Annotations ==
    /\ pc = "annotations"
    /\ \/ /\ stored.exists
          /\ trace' = Append(trace, Call("Annotations", "ok"))
          /\ result' = Result(TRUE, nil)
          /\ fresh' \in {fresh, FALSE}
       \/ /\ trace' = Append(trace, Call("Annotations", "err"))
          /\ result' = Result(FALSE, "failed to add annotations to alert")
          /\ UNCHANGED fresh
    /\ pc' = "refresh"
    /\ UNCHANGED <<fixed, stored, alert, actions, ha, ha0, cluster, curAlert,
                   expectedAlert, env>>

\* The update branch without the comparison: every pass updates.
AfterCompareAlwaysUpdate(cur, expected) == "update"

\* Where the pass goes once both alerts are at hand.
AfterCompare(cur, expected) ==
    IF AlertDiffers(cur, expected) THEN "update" ELSE "refresh"

\* The update branch with the error of GetActionIDsMapForAlerts not looked at.
CheckUpdateUnchecked ==
    /\ pc = "actionids"
    /\ \E got \in ClientGetActionIDs(ha.spec) :
          /\ trace' = Append(trace, Call("GetActionIDs", got))
          /\ \/ /\ ~CanTransform(ha.spec, ActionIdMap(ha.spec, actions))
                /\ result' = Result(FALSE, "could not parse expected Alert")
                /\ pc' = "refresh"
                /\ UNCHANGED <<curAlert, expectedAlert>>
             \/ /\ CanTransform(ha.spec, ActionIdMap(ha.spec, actions))
                /\ expectedAlert' = {AlertTransform(ha.spec, ActionIdMap(ha.spec, actions))}
                /\ curAlert' = {sanitizeAlert(The(curAlert))}
                /\ result' = Result(FALSE, nil)
                /\ pc' = IF sanitizeAlert(The(curAlert)) # The(expectedAlert')
                         THEN "update" ELSE "refresh"
    /\ UNCHANGED <<fixed, stored, alert, actions, ha, ha0, fresh, cluster, env>>

\* The alert exists: GetActionIDsMapForAlerts, AlertTransform, sanitizeAlert
\* and the comparison.
CheckUpdate ==
    /\ pc = "actionids"
    /\ \E got \in ClientGetActionIDs(ha.spec) :
          /\ trace' = Append(trace, Call("GetActionIDs", got))
          /\ \/ /\ got = "err"
                /\ result' = Result(FALSE, "could not get action id mapping")
                /\ pc' = "refresh"
                /\ UNCHANGED <<curAlert, expectedAlert>>
             \/ /\ got # "err"
                /\ ~CanTransform(ha.spec, ActionIdMap(ha.spec, actions))
                /\ result' = Result(FALSE, "could not parse expected Alert")
                /\ pc' = "refresh"
                /\ UNCHANGED <<curAlert, expectedAlert>>
             \/ /\ got # "err"
                /\ CanTransform(ha.spec, ActionIdMap(ha.spec, actions))
                /\ expectedAlert' = {AlertTransform(ha.spec, ActionIdMap(ha.spec, actions))}
                /\ curAlert' = {sanitizeAlert(The(curAlert))}
                /\ result' = Result(FALSE, nil)
                /\ pc' = AfterCompare(The(curAlert), The(expectedAlert'))
    /\ UNCHANGED <<fixed, stored, alert, actions, ha, ha0, fresh, cluster, env>>

\* UpdateAlert tried a second time in the same pass when it fails.
UpdateAlertRetried ==
    /\ pc = "update"
    /\ \E o1, o2 \in ClientUpdateAlert(The(expectedAlert)) :
          LET o == IF o1.ok THEN o1 ELSE o2
              first == IF o1.ok THEN <<>> ELSE <<Call("UpdateAlert", "err")>>
          IN  /\ alert' = o.alert
              /\ trace' = trace \o first
                            \o <<Call("UpdateAlert", IF o.ok THEN "ok" ELSE "err")>>
              /\ result' = Result(FALSE, IF o.ok THEN nil ELSE "could not update alert")
    /\ pc' = "refresh"
    /\ UNCHANGED <<fixed, stored, actions, ha, ha0, fresh, cluster, curAlert,
                   expectedAlert, env>>

\* The alerts differ: r.HumioClient.UpdateAlert.
UpdateAlert ==
    /\ pc = "update"
    /\ \E o \in ClientUpdateAlert(The(expectedAlert)) :
          /\ alert' = o.alert
          /\ trace' = Append(trace, Call("UpdateAlert", IF o.ok THEN "ok" ELSE "err"))
          /\ result' = Result(FALSE, IF o.ok THEN nil ELSE "could not update alert")
    /\ pc' = "refresh"
    /\ UNCHANGED <<fixed, stored, actions, ha, ha0, fresh, cluster, curAlert,
                   expectedAlert, env>>

----------------------------------------------------------------------------
\* The owner of the object, other controllers and the Humio server

\* The owner deletes the object: gone at once without finalizers, marked otherwise.
OwnerDelete ==
    /\ env < MaxEnv
    /\ stored.exists
    /\ ~stored.deletion
    /\ stored' = Collect([stored EXCEPT !.deletion = TRUE])
    /\ fresh' = FALSE
    /\ env' = env + 1
    /\ UNCHANGED <<fixed, alert, actions, pc, ha, ha0, cluster, curAlert,
                   expectedAlert, result, trace>>

\* The owner edits the spec.
OwnerEdit ==
    /\ env < MaxEnv
    /\ stored.exists
    /\ ~stored.deletion
    /\ \E s \in Specs \ {stored.spec} : stored' = [stored EXCEPT !.spec = s]
    /\ fresh' = FALSE
    /\ env' = env + 1
    /\ UNCHANGED <<fixed, alert, actions, pc, ha, ha0, cluster, curAlert,
                   expectedAlert, result, trace>>

\* Another controller is done with its finalizer.
OtherFinalizerDone ==
    /\ env < MaxEnv
    /\ stored.exists
    /\ stored.deletion
    /\ ContainsElement(stored.finalizers, otherFinalizer)
    /\ stored' = Collect([stored EXCEPT
                            !.finalizers = RemoveElement(@, otherFinalizer)])
    /\ fresh' = FALSE
    /\ env' = env + 1
    /\ UNCHANGED <<fixed, alert, actions, pc, ha, ha0, cluster, curAlert,
                   expectedAlert, result, trace>>

\* Somebody edits the alert in Humio.
RemoteEdit ==
    /\ env < MaxEnv
    /\ alert # {}
    /\ \E q \in Queries \ {The(alert).query} :
          alert' = {[The(alert) EXCEPT !.query = q]}
    /\ env' = env + 1
    /\ UNCHANGED <<fixed, stored, actions, pc, ha, ha0, fresh, cluster, curAlert,
                   expectedAlert, result, trace>>

\* Somebody removes the alert in Humio.
RemoteLost ==
    /\ env < MaxEnv
    /\ alert # {}
    /\ alert' = {}
    /\ env' = env + 1
    /\ UNCHANGED <<fixed, stored, actions, pc, ha, ha0, fresh, cluster, curAlert,
                   expectedAlert, result, trace>>

\* The alert fires, with or without an error: the server-managed fields.
ServerTelemetry ==
    /\ env < MaxEnv
    /\ alert # {}
    /\ \E e \in {"", "failed"} :
          /\ <<1, e>> # <<The(alert).time, The(alert).lastError>>
          /\ alert' = {[The(alert) EXCEPT !.time = 1, !.lastError = e]}
    /\ env' = env + 1
    /\ UNCHANGED <<fixed, stored, actions, pc, ha, ha0, fresh, cluster, curAlert,
                   expectedAlert, result, trace>>

\* An action is added to Humio or removed from it.
ActionsChange ==
    /\ env < MaxEnv
    /\ \E n \in ActionNames :
          actions' = IF n \in actions THEN actions \ {n} ELSE actions \cup {n}
    /\ env' = env + 1
    /\ UNCHANGED <<fixed, stored, alert, pc, ha, ha0, fresh, cluster, curAlert,
                   expectedAlert, result, trace>>

----------------------------------------------------------------------------
\* A step with the lifetime of the object left aside.
Plain(A) == A /\ UNCHANGED hist

Next ==
    \/ Plain(Reconcile)
    \/ Plain(ConfigError)
    \/ Plain(DeletionNoFinalizer)
    \/ Plain(DeleteAlert)
    \/ Plain(RemoveFinalizer)
    \/ Plain(AddFinalizer)
    \/ Plain(GetAlert)
    \/ Plain(AddAlert)
    \/ Plain(Annotations)
    \/ Plain(CheckUpdate)
    \/ Plain(UpdateAlert)
    \/ Plain(Refresh)
    \/ Plain(OwnerDelete)
    \/ Plain(OwnerEdit)
    \/ Plain(OtherFinalizerDone)
    \/ Plain(RemoteEdit)
    \/ Plain(RemoteLost)
    \/ Plain(ServerTelemetry)
    \/ Plain(ActionsChange)

Spec == Init /\ [][Next]_vars

----------------------------------------------------------------------------
\* What the claims speak of

\* How often the controller's token stands in a finalizer list.
Token(list) == Count(list, humioFinalizer)

\* The pass in flight (or just ended) loaded the object and has a client
\* configuration.
Configured == ha0.exists /\ cluster = "ok"

\* reconcileHumioAlert has returned; the whole pass has.
Returned == pc \in {"refresh", "done"}
Ended == pc = "done"

Failed(op) == {i \in 1..Len(trace) : trace[i].op = op /\ trace[i].out = "err"}
ObjectWrites == Calls("Update") \cup Calls("Annotations")

\* The fields of an alert that the spec declares.
Declared(a) == <<a.query, a.actions>>

----------------------------------------------------------------------------
\* The passes C1 speaks of.
C1_Case == Configured /\ ~ha0.deletion /\ Token(ha0.finalizers) = 0

\* C1. Finalizer before mutation: a pass that loaded an object with no
\* deletion marker and no token makes no remote create, update or delete;
\* it writes the finalizer list once, and returns RequeueImmediately without
\* error with the token in the store when the write succeeded, the error
\* without requeue when it failed.  An alert is only ever created by a pass
\* that loaded the token from the store.
C1_FinalizerBeforeMutation ==
    /\ C1_Case =>
          /\ Mutations = {}
          /\ Returned =>
                /\ Cardinality(Calls("Update")) = 1
                /\ trace[1].op = "Update"
                /\ CallsOk("Update") # {} =>
                      /\ result = Result(TRUE, nil)
                      /\ stored.exists
                      /\ Token(stored.finalizers) = 1
                /\ CallsOk("Update") = {} =>
                      /\ result.err # nil
                      /\ ~result.requeue
    /\ Calls("AddAlert") # {} => Token(ha0.finalizers) = 1

C1_Witness == Ended /\ C1_Case /\ CallsOk("Update") # {}

\* The two halves of C2: a state invariant and a step invariant.
C2_TokenWhileAlert == alert # {} => stored.exists /\ Token(stored.finalizers) = 1

C2_TokenLeaves ==
    Token(stored.finalizers) > 0 /\ Token(stored'.finalizers) = 0 =>
        \E i \in 1..Len(trace') : trace'[i] = Call("DeleteAlert", "ok")

\* C2. Never orphaned: while the alert exists in Humio the object is in the
\* store with the controller's token exactly once in its finalizer list, and
\* the token leaves the store only in a step of a pass whose DeleteAlert call
\* has succeeded.
C2_NeverOrphaned == [] C2_TokenWhileAlert /\ [][C2_TokenLeaves]_vars

C2_Witness ==
    /\ Ended
    /\ alert # {}
    /\ stored.deletion
    /\ Failed("DeleteAlert") # {}

\* The passes C3 speaks of.
C3_Case == Configured /\ ha0.deletion /\ Token(ha0.finalizers) > 0
           /\ Failed("DeleteAlert") # {}

\* C3. A failed delete keeps the finalizer: in a pass that loaded the object
\* with the deletion marker and the token, and whose DeleteAlert failed, the
\* result is an error, no finalizer list is written, and the store still holds
\* the object with the marker and the token, which is what the next pass
\* loads.
C3_DeleteFailureKeepsFinalizer ==
    C3_Case =>
        /\ result.err # nil
        /\ ~result.requeue
        /\ ObjectWrites = {}
        /\ stored.exists
        /\ stored.deletion
        /\ Token(stored.finalizers) = Token(ha0.finalizers)

C3_Witness == Ended /\ C3_Case

\* The passes C4 speaks of.
C4_Case == Configured /\ ha0.deletion /\ Token(ha0.finalizers) > 0
           /\ CallsOk("DeleteAlert") # {}

\* The remote calls of the pass that follow its successful DeleteAlert.
AfterTheDelete == {i \in RemoteCalls : \E d \in CallsOk("DeleteAlert") : i > d}

\* C4. After a successful delete: in a pass that loaded the object with the
\* deletion marker and the token, and whose DeleteAlert succeeded, the delete
\* is the only remote mutation; the pass writes the finalizer list once, and
\* when that write succeeded the token is in the store no more and the result
\* is (None, no error), when it failed the token is still there and the result
\* is the error; the only remote call after the delete is the one GetAlert of
\* the deferred refresh.
C4_DeleteSuccess ==
    C4_Case =>
        /\ Cardinality(Mutations) = 1
        /\ pc = "refresh" => AfterTheDelete = {}
        /\ Returned =>
              /\ Cardinality(Calls("Update")) = 1
              /\ CallsOk("Update") # {} =>
                    /\ Token(stored.finalizers) = 0
                    /\ result = Result(FALSE, nil)
              /\ CallsOk("Update") = {} =>
                    /\ Token(stored.finalizers) > 0
                    /\ result.err # nil
        /\ Ended =>
              /\ Cardinality(AfterTheDelete) = 1
              /\ \A i \in AfterTheDelete : trace[i].op = "GetAlert"

C4_Witness == Ended /\ C4_Case /\ CallsOk("Update") # {} /\ ~stored.exists

\* C4 as the claim has it: the token is gone at the end of the pass and no
\* remote call of any kind follows the delete.
C4_NoCallAfterDelete ==
    Ended /\ C4_Case =>
        /\ Token(stored.finalizers) = 0
        /\ AfterTheDelete = {}

\* C5. A configuration error is propagated: a pass without a usable client
\* configuration sets the state to ConfigError, returns an error, makes no
\* remote call and writes no finalizer list.
C5_ConfigErrorPropagated ==
    Ended /\ ha0.exists /\ cluster = "error" =>
        /\ ha.state = HumioAlertStateConfigError
        /\ result.err # nil
        /\ RemoteCalls = {}
        /\ ObjectWrites = {}

\* C6. The side effects of one pass: at most one remote create, update or
\* delete, at most one status write, at most one write of the object; a pass
\* that creates the alert does not update it.
C6_SideEffectBound ==
    /\ Cardinality(Mutations) <= 1
    /\ Cardinality(Calls("StatusUpdate")) <= 1
    /\ Cardinality(ObjectWrites) <= 1
    /\ Calls("AddAlert") # {} => Calls("UpdateAlert") = {}

C6_Witness ==
    /\ Ended
    /\ Cardinality(Mutations) = 1
    /\ Cardinality(Calls("StatusUpdate")) = 1
    /\ Cardinality(ObjectWrites) = 1

\* The passes C7 speaks of.
C7_Case == /\ Configured /\ ~ha0.deletion /\ Token(ha0.finalizers) = 1
           /\ expectedAlert # {} /\ curAlert = expectedAlert

\* What the GetAlert of the deferred refresh returned, once the pass has ended.
RefreshGot == trace[CHOOSE i \in Calls("GetAlert") :
                        \A j \in Calls("GetAlert") : j <= i].out

\* C7. Idempotence: a pass that loaded the object with the token and without
\* the deletion marker, and found the fetched alert, sanitized, equal to the
\* transform of the spec, makes no remote create, update or delete and returns
\* (None, no error); the status stays as it was, with no status write, when it
\* already was the one the deferred refresh's GetAlert reports; else the
\* refresh writes that one.
C7_Idempotence ==
    C7_Case =>
        /\ Mutations = {}
        /\ Returned => result = Result(FALSE, nil)
        /\ Ended =>
              /\ ha0.state = RefreshState(RefreshGot) =>
                    /\ Calls("StatusUpdate") = {}
                    /\ stored.state = ha0.state
              /\ ha0.state # RefreshState(RefreshGot) =>
                    /\ Cardinality(Calls("StatusUpdate")) = 1
                    /\ CallsOk("StatusUpdate") # {} =>
                          stored.state = RefreshState(RefreshGot)
                    /\ CallsOk("StatusUpdate") = {} => stored.state = ha0.state

C7_Witness ==
    /\ Ended
    /\ C7_Case
    /\ ha0.state = HumioAlertStateExists
    /\ RefreshGot = "ok"
    /\ alert # {}
    /\ The(alert).lastError # ""

\* C7 as the claim has it: the status after the pass is the status before it.
C7_StatusUnchanged ==
    Ended /\ C7_Case =>
        /\ Mutations = {}
        /\ result = Result(FALSE, nil)
        /\ stored.state = ha0.state

\* The passes C8 speaks of.
C8_Case == Configured /\ expectedAlert # {} /\ Returned

\* The two halves of C8: whether UpdateAlert is called, and what it does.
C8_UpdateIffDrift ==
    C8_Case =>
        Cardinality(Calls("UpdateAlert")) =
            IF Declared(The(curAlert)) # Declared(The(expectedAlert)) THEN 1 ELSE 0

C8_UpdateIsWhole ==
    trace' = Append(trace, Call("UpdateAlert", "ok")) =>
        /\ Declared(The(alert')) = Declared(The(expectedAlert))
        /\ The(alert').id = The(alert).id
        /\ The(alert').time = The(alert).time
        /\ The(alert').lastError = The(alert).lastError

\* C8. Drift decides the update: once a pass has fetched the alert, resolved
\* the action names and transformed the spec, it calls UpdateAlert once when
\* the two differ in a declared field and not at all when they agree on the
\* declared fields, whatever the server-managed fields hold; a successful
\* update leaves the declared fields of the remote alert those of the
\* transform and the server-managed ones as they were.
C8_DriftDecidesUpdate == [] C8_UpdateIffDrift /\ [][C8_UpdateIsWhole]_vars

C8_Witness ==
    /\ Ended
    /\ C8_Case
    /\ CallsOk("UpdateAlert") # {}
    /\ The(curAlert).query # The(expectedAlert).query

\* The action resolutions of the pass that failed or came back short.
Unresolved == {i \in Calls("GetActionIDs") : trace[i].out \in {"err", "partial"}}

C10_Case == Configured /\ ha0.deletion /\ Token(ha0.finalizers) = 0

\* C10. No-op on already-deleted: a pass that loaded the object with the
\* deletion marker and without the token returns (None, no error), writes no
\* finalizer list, makes no remote create, update or delete and resolves no
\* action; reconcileHumioAlert makes no remote call at all, and the one remote
\* call of the pass is the GetAlert of the deferred refresh, followed by its
\* status write if the status changes.
C10_AlreadyDeleted ==
    C10_Case =>
        /\ Mutations = {}
        /\ ObjectWrites = {}
        /\ Calls("GetActionIDs") = {}
        /\ ~Ended => trace = <<>>
        /\ Returned => result = Result(FALSE, nil)
        /\ Ended =>
              /\ Calls("GetAlert") = {1}
              /\ Len(trace) <= 2
              /\ Len(trace) = 2 => trace[2].op = "StatusUpdate"

C10_Witness == Ended /\ C10_Case /\ Len(trace) = 2

\* C10 as the claim has it: no remote call of any kind in the whole pass.
C10_NoRemoteCall ==
    Ended /\ C10_Case =>
        /\ result = Result(FALSE, nil)
        /\ ObjectWrites = {}
        /\ RemoteCalls = {}

----------------------------------------------------------------------------
\* The calls a step adds to the trace of the pass.
NewCalls == SubSeq(trace', Len(trace) + 1, Len(trace'))

\* The step that ends a pass that has a client configuration.
C11_Exit == pc # "done" /\ pc' = "done" /\ cluster' = "ok"

\* The state the claim asks for, by what the refresh fetched.
C11_Want(got) ==
    CASE got = "notfound" -> HumioAlertStateNotFound
      [] got = "err" -> HumioAlertStateConfigError
      [] got = "ok" -> HumioAlertStateExists

\* What the step that ends such a pass does.
C11_RefreshStep ==
    C11_Exit =>
        /\ pc = "refresh"
        /\ alert' = alert
        /\ Len(NewCalls) \in {1, 2}
        /\ NewCalls[1].op = "GetAlert"
        /\ NewCalls[1].out = "ok" => alert # {}
        /\ NewCalls[1].out = "notfound" => alert = {}
        /\ Len(NewCalls) = 1 =>
              /\ ha.state = C11_Want(NewCalls[1].out)
              /\ stored'.exists => stored'.state = C11_Want(NewCalls[1].out)
        /\ Len(NewCalls) = 2 =>
              /\ NewCalls[2].op = "StatusUpdate"
              /\ ha.state # C11_Want(NewCalls[1].out)
              /\ NewCalls[2].out = "ok" =>
                    /\ stored'.exists
                    /\ stored'.state = C11_Want(NewCalls[1].out)

----------------------------------------------------------------------------
\* The passes of one object with nothing going wrong: no step of the owner
\* or of the server, no call that fails, every pass counted.  The status
\* write of the refresh is left free, as it is no part of what the pass
\* returns.

\* The passes a run counts.
MaxPasses == 4

\* The request is in scope and the actions the spec names exist.
InitConverge ==
    /\ Init
    /\ ~OutOfScope
    /\ CanTransform(stored.spec, ActionIdMap(stored.spec, actions))

\* No call of the step has failed.
NoFailure ==
    /\ cluster' # "error"
    /\ result'.err = nil
    /\ \A i \in 1..Len(trace') :
          trace'[i].op # "StatusUpdate" => trace'[i].out \in {"ok", "notfound"}

\* A step without failure; the step that starts a pass counts it.
Counted(A) ==
    /\ pc \in {"idle", "done"} => passes < MaxPasses
    /\ A
    /\ NoFailure
    /\ passes' = IF pc \in {"idle", "done"} THEN passes + 1 ELSE passes
    /\ UNCHANGED <<deletes, faults>>

NextConverge ==
    \/ Counted(Reconcile)
    \/ Counted(AddFinalizer)
    \/ Counted(GetAlert)
    \/ Counted(AddAlert)
    \/ Counted(Annotations)
    \/ Counted(CheckUpdate)
    \/ Counted(Refresh)

SpecConverge == InitConverge /\ [][NextConverge]_vars

\* The first pass but for its remote calls.
C12_Pass1 ==
    passes = 1 =>
        /\ pc \in {"reconcile", "refresh", "done"}
        /\ Mutations = {}
        /\ Returned =>
              /\ result = Result(TRUE, nil)
              /\ trace[1] = Call("Update", "ok")
              /\ Token(stored.finalizers) = 1

\* The second pass.
C12_Pass2 ==
    passes = 2 =>
        /\ pc \in {"reconcile", "add", "annotations", "refresh", "done"}
        /\ Returned =>
              /\ trace[1] = Call("GetAlert", "notfound")
              /\ Cardinality(Calls("AddAlert")) = 1
              /\ CallsOk("AddAlert") # {}
              /\ Calls("UpdateAlert") = {}
              /\ Calls("DeleteAlert") = {}
              /\ result = Result(TRUE, nil)

\* The third pass and every pass after it.
C12_Pass3 ==
    passes >= 3 =>
        /\ pc \in {"reconcile", "actionids", "refresh", "done"}
        /\ Returned =>
              /\ trace[1] = Call("GetAlert", "ok")
              /\ curAlert = expectedAlert
              /\ expectedAlert =
                    {AlertTransform(ha0.spec, ActionIdMap(ha0.spec, actions))}
              /\ Mutations = {}
              /\ ObjectWrites = {}
              /\ result = Result(FALSE, nil)

\* C12. Three-pass convergence: from an object with no deletion marker and no
\* token, no alert in Humio and no failing call, pass 1 writes the finalizer,
\* makes no remote create, update or delete and returns RequeueImmediately,
\* its one remote call being the GetAlert of the deferred refresh, which finds
\* no alert; pass 2 fetches, finds no alert, creates it once, updates nothing
\* and returns RequeueImmediately; pass 3 fetches the alert, finds it equal to
\* the transformed spec once sanitized, makes no create, update or delete and
\* returns (None, no error); every later pass does as pass 3.
C12_ThreePasses ==
    /\ C12_Pass1
    /\ passes = 1 /\ Ended =>
          /\ RemoteCalls = {2}
          /\ trace[2] = Call("GetAlert", "notfound")
    /\ C12_Pass2
    /\ C12_Pass3

C12_Witness == Ended /\ passes = 4 /\ Calls("GetActionIDs") # {}

\* C12 as the claim has it: pass 1 makes no remote call at all.
C12_NoRemoteCallInPass1 ==
    /\ C12_Pass1
    /\ passes = 1 /\ Ended => RemoteCalls = {}
    /\ C12_Pass2
    /\ C12_Pass3

----------------------------------------------------------------------------
\* The lifetime of one object: passes one after the other, each delivery
\* followed by the next, the owner editing and deleting the object, a pass
\* crashing between any two of its steps, calls failing.  What is made to go
\* wrong is counted, so that calls succeed in the end.

\* The successful deletes a run counts, the steps of the owner, and the
\* failures and crashes of a run.
MaxDeletes == 2
MaxOwner == 2
MaxFaults == 2

\* The request is in scope and the actions every spec names exist.
InitLife ==
    /\ Init
    /\ ~OutOfScope
    /\ actions = ActionNames

\* The process dies in the middle of a pass: what the pass held in memory is
\* lost, the deferred refresh does not run.
Crash ==
    /\ pc \notin {"idle", "done"}
    /\ pc' = "idle"
    /\ ha' = Gone
    /\ ha0' = Gone
    /\ fresh' = FALSE
    /\ cluster' = ""
    /\ curAlert' = {}
    /\ expectedAlert' = {}
    /\ result' = Result(FALSE, nil)
    /\ trace' = <<>>
    /\ UNCHANGED <<fixed, stored, alert, actions, env>>

\* The write of the step could only fail: ha is stale, or the object is gone.
Conflict ==
    \/ pc \in {"reconcile", "unfinalize"} /\ ~CanWrite
    \/ pc = "annotations" /\ ~stored.exists

\* The step is a crash, or a call of it was made to fail.
Fault ==
    \/ pc \in {"idle", "done"} /\ (result'.err # nil \/ cluster' = "error")
    \/ pc \notin {"idle", "done"} /\ pc' = "idle"
    \/ /\ pc \notin {"idle", "done", "cfgerr", "refresh"}
       /\ result'.err # nil
       /\ ~Conflict

\* A step of the lifetime: its faults and its successful deletes are counted.
Lived(A) ==
    /\ A
    /\ Fault => faults < MaxFaults
    /\ faults' = IF Fault THEN faults + 1 ELSE faults
    /\ deletes' = IF /\ deletes < MaxDeletes
                     /\ \E i \in 1..Len(NewCalls) : NewCalls[i] = Call("DeleteAlert", "ok")
                  THEN deletes + 1 ELSE deletes
    /\ UNCHANGED passes

\* A step of the owner.
Owned(A) == env < MaxOwner /\ Lived(A)

\* The steps of the controller.
Pass ==
    \/ Lived(Reconcile)
    \/ Lived(ConfigError)
    \/ Lived(DeletionNoFinalizer)
    \/ Lived(DeleteAlert)
    \/ Lived(RemoveFinalizer)
    \/ Lived(AddFinalizer)
    \/ Lived(GetAlert)
    \/ Lived(AddAlert)
    \/ Lived(Annotations)
    \/ Lived(CheckUpdate)
    \/ Lived(UpdateAlert)
    \/ Lived(Refresh)

NextLife ==
    \/ Pass
    \/ Lived(Crash)
    \/ Owned(OwnerDelete)
    \/ Owned(OwnerEdit)
    \/ Owned(OtherFinalizerDone)

\* Every delivery is followed by the next, and a pass in flight goes on.
SpecLife == InitLife /\ [][NextLife]_vars /\ WF_vars(Pass)

\* The step holds a DeleteAlert call that succeeded.
C13_DeleteStep ==
    \E i \in 1..Len(NewCalls) : NewCalls[i] = Call("DeleteAlert", "ok")

\* A delete is issued in the deletion branch, the token still in the store.
C13_InDeletionBranch ==
    C13_DeleteStep =>
        /\ pc = "reconcile"
        /\ ha.deletion
        /\ Token(ha.finalizers) = 1
        /\ stored.exists
        /\ Token(stored.finalizers) = 1
        /\ Token(stored'.finalizers) = 1

\* The token leaves the store after a delete of the same pass has succeeded.
C13_DeleteBeforeToken ==
    Token(stored.finalizers) > 0 /\ Token(stored'.finalizers) = 0 =>
        /\ deletes' >= 1
        /\ CallsOk("DeleteAlert") # {}
        /\ ~C13_DeleteStep

\* C13. Delete at least once: over the lifetime of one object, passes that
\* crash and calls that fail included, every DeleteAlert call that succeeds is
\* made in the deletion branch while the token is in the store, and the token
\* leaves the store only after a DeleteAlert call of the same pass has
\* succeeded.  A pass that follows a failed finalizer write or a crash after
\* the delete calls DeleteAlert again, so the call may succeed more than once.
C13_DeleteAtLeastOnce == [][C13_InDeletionBranch /\ C13_DeleteBeforeToken]_vars

C13_Witness ==
    /\ deletes = 2
    /\ faults >= 1
    /\ ~stored.exists \/ Token(stored.finalizers) = 0

\* C13 as the claim has it: the delete succeeds once and no more.
C13_DeleteExactlyOnce ==
    /\ [](deletes <= 1)
    /\ [][C13_InDeletionBranch /\ C13_DeleteBeforeToken]_vars

----------------------------------------------------------------------------
\* The passes C14 speaks of: ended with no client configuration, or with a
\* create, update, delete or action-id resolution that failed; the status
\* write, if one was made, succeeded.
C14_Case ==
    /\ Ended
    /\ ha0.exists
    /\ \/ cluster = "error"
       \/ /\ cluster = "ok"
          /\ \/ Failed("AddAlert") # {}
             \/ Failed("UpdateAlert") # {}
             \/ Failed("DeleteAlert") # {}
             \/ Failed("GetActionIDs") # {}
    /\ Failed("StatusUpdate") = {}

\* C14. Errors are visible as ConfigError status: a pass that ends with a
\* configuration error or with a failed create, update, delete or action-id
\* resolution leaves the status ConfigError when the status write succeeds,
\* and returns an error.
C14_ErrorsVisible ==
    C14_Case =>
        /\ stored.exists => stored.state = HumioAlertStateConfigError
        /\ result.err # nil

\* The same for the remote-call errors alone.
C14_RemoteErrorsVisible ==
    C14_Case /\ cluster = "ok" =>
        /\ stored.exists => stored.state = HumioAlertStateConfigError
        /\ result.err # nil

\* What does hold of these passes: a remote-call error is returned, and the
\* status is what the refresh found, ConfigError only when its fetch failed.
C14_RemoteErrorsReturned ==
    C14_Case /\ cluster = "ok" =>
        /\ result.err # nil
        /\ stored.exists => stored.state = C11_Want(RefreshGot)

----------------------------------------------------------------------------
\* The state the controller works towards: with no deletion marker the token
\* in the store and the alert in Humio with the declared fields of the
\* transformed spec; with the marker, or with the object gone, no alert and
\* no token.
Target ==
    IF stored.exists /\ ~stored.deletion
    THEN /\ Token(stored.finalizers) = 1
         /\ alert # {}
         /\ Declared(The(alert)) =
               Declared(AlertTransform(stored.spec,
                                       ActionIdMap(stored.spec, actions)))
    ELSE /\ alert = {}
         /\ Token(stored.finalizers) = 0

\* The step creates the alert.
C15_CreateStep ==
    \E i \in 1..Len(NewCalls) : NewCalls[i] = Call("AddAlert", "ok")

\* An alert is created only where there is none.
C15_NoDuplicateCreate == C15_CreateStep => alert = {} /\ alert' # {}

C15_Quiet ==
    /\ Ended
    /\ result = Result(FALSE, nil)
    /\ [stored EXCEPT !.state = ""] = [ha0 EXCEPT !.state = ""]

\* But for the passes without client configuration (C5), the controller is
\* quiet only in its target state.
C15_QuietOnlyAtTarget == C15_Quiet /\ cluster # "error" => Target

----------------------------------------------------------------------------
\* Two passes of Reconcile at once, for different requests, on the one
\* reconciler: the steps of each that touch r.Log, in any order.  r.Log is
\* written and read without a lock, so a read gives what was written last,
\* by whichever pass.

\* A log line: the line of the source and the values of the logger it was
\* written with.
Line(q, line, l) == [line |-> line, name |-> l.name, uid |-> l.uid]

\* The object, the store, Humio and the lifetime are left aside.
Aside ==
    UNCHANGED <<Namespace, secrets, stored, alert, actions, pc, ha, ha0, fresh,
                cluster, curAlert, expectedAlert, result, trace, env, hist>>

\* Line 60: r.Log = r.BaseLogger.WithValues(...).
SetLog(q) ==
    /\ at[q] = "l54"
    /\ Log' = WithRequest(q)
    /\ at' = [at EXCEPT ![q] = "l61"]
    /\ UNCHANGED <<held, logged>>
    /\ Aside

\* Line 61: r.Log.Info("Reconciling HumioAlert").
LogReconciling(q) ==
    /\ at[q] = "l61"
    /\ logged' = [logged EXCEPT ![q] = Append(@, Line(q, 61, Log))]
    /\ at' = [at EXCEPT ![q] = "l76"]
    /\ UNCHANGED <<Log, held>>
    /\ Aside

\* Line 76, the right-hand side: r.Log is read.
ReadLog(q) ==
    /\ at[q] = "l76"
    /\ held' = [held EXCEPT ![q] = Log]
    /\ at' = [at EXCEPT ![q] = "l76w"]
    /\ UNCHANGED <<Log, logged>>
    /\ Aside

\* Line 76, the assignment: r.Log = (what was read).WithValues("Request.UID", ha.UID).
SetLogUID(q) ==
    /\ at[q] = "l76w"
    /\ Log' = WithUID(held[q], UID(q))
    /\ at' = [at EXCEPT ![q] = "l106"]
    /\ UNCHANGED <<held, logged>>
    /\ Aside

\* Line 106: r.Log.Info("Checking if alert is marked to be deleted").
LogChecking(q) ==
    /\ at[q] = "l106"
    /\ logged' = [logged EXCEPT ![q] = Append(@, Line(q, 106, Log))]
    /\ at' = [at EXCEPT ![q] = "end"]
    /\ UNCHANGED <<Log, held>>
    /\ Aside

\* The pass returns; the next request for the same object starts a new one.
NextRequest(q) ==
    /\ at[q] = "end"
    /\ at' = [at EXCEPT ![q] = "l54"]
    /\ held' = [held EXCEPT ![q] = BaseLogger]
    /\ logged' = [logged EXCEPT ![q] = <<>>]
    /\ UNCHANGED Log
    /\ Aside

NextLog ==
    \E q \in Requests :
        \/ SetLog(q)
        \/ LogReconciling(q)
        \/ ReadLog(q)
        \/ SetLogUID(q)
        \/ LogChecking(q)
        \/ NextRequest(q)

SpecLog == Init /\ [][NextLog]_vars

\* The lines a pass writes when it runs alone.
Sequential(q) ==
    <<Line(q, 61, WithRequest(q)), Line(q, 106, WithUID(WithRequest(q), UID(q)))>>

\* C16. No cross-identity shared state: with two passes for different
\* requests running at once on one reconciler, every log line a pass writes
\* carries the values of its own request, as it does when the pass runs alone.
C16_LoggerPerPass ==
    \A q \in Requests :
        logged[q] = SubSeq(Sequential(q), 1, Len(logged[q]))

----------------------------------------------------------------------------
\* The step of the deferred refresh, whatever its fetch and its status write
\* gave.
C17_RefreshStep == pc = "refresh" /\ pc' = "done"

\* C17. Status refresh never changes the outcome: what Reconcile returns is
\* what reconcileHumioAlert returned, requeue and error both; the deferred
\* refresh leaves it as it is when its GetAlert fails and when its status
\* write fails, and every pass that has a client configuration ends by it.
C17_RefreshKeepsResult ==
    [][/\ C17_RefreshStep => result' = result
       /\ C11_Exit => C17_RefreshStep]_vars

C17_Witness ==
    /\ Ended
    /\ Configured
    /\ result = Result(TRUE, nil)
    /\ RefreshGot = "err"
    /\ Failed("StatusUpdate") # {}

----------------------------------------------------------------------------
\* The steps that call setState, and the state each asks for.
C18_SetStateStep == pc \in {"cfgerr", "refresh"} /\ pc' = "done"
C18_Asked ==
    IF pc = "cfgerr" THEN HumioAlertStateConfigError
    ELSE C11_Want(NewCalls[1].out)

\* The status writes of a step.
C18_Writes == {i \in 1..Len(NewCalls) : NewCalls[i].op = "StatusUpdate"}

\* What a step that calls setState does.
C18_Step ==
    /\ C18_Writes # {} => C18_SetStateStep
    /\ C18_SetStateStep =>
          /\ C18_Writes # {} <=> ha.state # C18_Asked
          /\ Cardinality(C18_Writes) <= 1
          /\ ha.state = C18_Asked =>
                /\ ha' = ha
                /\ stored' = stored
                /\ pc = "cfgerr" => result' = Result(FALSE, nil)
          /\ ha.state # C18_Asked => ha'.state = C18_Asked

\* C18. Status write skipped when unchanged: setState makes a status write if
\* and only if the state asked for differs from the state the object in hand
\* holds; when they are equal it returns no error, writes nothing to the store
\* and leaves the object as it is.
C18_WriteIffChanged == [][C18_Step]_vars

C18_Witness ==
    /\ Ended
    /\ cluster = "error"
    /\ ha0.state = HumioAlertStateConfigError
    /\ trace = <<>>
    /\ result = Result(FALSE, nil)

----------------------------------------------------------------------------
\* The secrets of the HumioActions: SecretFromHa and HaHasSecret called in
\* any order on the HumioActions, each object being one value in memory.

\* The SecretFromHa calls made on one HumioAction.
MaxCalls == 2

\* fmt.Sprintf("%s-%s", hn.Namespace, hn.Name)
Key(hn) == hn.Namespace \o "-" \o hn.Name

\* HaHasSecret: the secret and true when the key is in the map, "" and false
\* when it is not.
HaHasSecret(hn) ==
    IF Key(hn) \in DOMAIN HaSecrets
    THEN <<HaSecrets[Key(hn)], TRUE>>
    ELSE <<"", FALSE>>

\* HaSecrets[key] = value
Put(m, key, value) ==
    [k \in DOMAIN m \cup {key} |-> IF k = key THEN value ELSE m[k]]

\* The controller and its object are left aside.
Apart ==
    UNCHANGED <<Namespace, logging, stored, alert, actions, pc, ha, ha0, fresh,
                cluster, curAlert, expectedAlert, result, trace, env, hist>>

\* SecretFromHa: the token goes into the map and is cleared in the action.
SecretFromHa(hn) ==
    /\ called[hn] < MaxCalls
    /\ HaSecrets' = Put(HaSecrets, Key(hn), ApiToken[hn])
    /\ ApiToken' = [ApiToken EXCEPT ![hn] = ""]
    /\ called' = [called EXCEPT ![hn] = @ + 1]
    /\ UNCHANGED <<before, looked>>
    /\ Apart

\* A call of HaHasSecret: what it returns is kept.
Lookup(hn) ==
    /\ looked' = <<hn, HaHasSecret(hn)>>
    /\ UNCHANGED <<HaSecrets, ApiToken, before, called>>
    /\ Apart

InitSecrets ==
    /\ InitAlert
    /\ Namespace = ""
    /\ stored.finalizers = <<>>
    /\ stored.spec = CHOOSE s \in Specs : TRUE
    /\ actions = {}
    /\ InitActions(Tokens)

NextSecrets == \E hn \in HumioActions : SecretFromHa(hn) \/ Lookup(hn)

SpecSecrets == InitSecrets /\ [][NextSecrets]_vars

\* SecretFromHa has been called on hn and on no other HumioAction.
C19_Case(hn) ==
    /\ called[hn] >= 1
    /\ \A other \in HumioActions \ {hn} : called[other] = 0

\* C19. Secret extraction is repeatable: after one or more SecretFromHa calls
\* on a HumioAction, and none on another, HaHasSecret returns for it the token
\* it carried before the first call and true, and its ApiToken is empty.
C19_Repeatable ==
    \A hn \in HumioActions :
        C19_Case(hn) =>
            /\ HaHasSecret(hn) = <<before[hn], TRUE>>
            /\ ApiToken[hn] = ""

\* The same after the first call only.
C19_FirstCall ==
    \A hn \in HumioActions :
        C19_Case(hn) /\ called[hn] = 1 =>
            /\ HaHasSecret(hn) = <<before[hn], TRUE>>
            /\ ApiToken[hn] = ""

\* SecretFromHa has never been called on hn.
C20_Untouched(hn) == called[hn] = 0

\* The step is a SecretFromHa call on hn.
C20_Stores(hn) == called'[hn] = called[hn] + 1

\* C20. Secret isolation: HaHasSecret says not found for a HumioAction on
\* which SecretFromHa was never called, and a SecretFromHa call on one
\* HumioAction leaves what HaHasSecret returns for every other one as it was.
C20_Isolation ==
    /\ [](\A hn \in HumioActions : C20_Untouched(hn) => ~HaHasSecret(hn)[2])
    /\ [][\A hn \in HumioActions :
             C20_Stores(hn) =>
                 \A other \in HumioActions \ {hn} :
                     HaHasSecret(other)' = HaHasSecret(other)]_vars

\* The same for the HumioActions whose keys differ from every other key.
C20_IsolationByKey ==
    \A hn \in HumioActions :
        /\ C20_Untouched(hn)
        /\ \A other \in HumioActions \ {hn} : Key(other) # Key(hn)
        => ~HaHasSecret(hn)[2]

====
